---- MODULE Spec2Model ----
(***************************************************************************)
(* A model of glhf's Compute shader wrapper (compute.go), the binder it    *)
(* embeds, the finalizer-driven deletion pipeline that runs through the    *)
(* mainthread dispatch gate, and the vertex slice / growable buffer layer. *)
(*                                                                         *)
(* Threads: "app" (an application goroutine that reaches the context only  *)
(* through mainthread.Call), "gc" (the Go runtime's finalizer goroutine)   *)
(* and "main" (the goroutine that owns the OpenGL context).                *)
(***************************************************************************)
EXTENDS Integers, Sequences, FiniteSets, TLC

\* ------------------------------------------------------------------ bounds

MaxCalls == 2
MaxDepth == 2
MaxUniforms == 2

\* Names the context can hand out: a NewCompute call holds at most three
\* shader objects and one program at once, and every earlier call left at
\* most one object behind.
MaxId == MaxCalls + 3

Wrappers == 1..MaxCalls
Ids == 1..MaxId
Threads == {"app", "gc", "main"}

VARIABLES
    calls,        \* one record per finished NewCompute call, in call order
    shaders,      \* wrapper -> the fields of *Compute (and of its binder)
    reach,        \* wrapper -> "none" | "live" | "unreachable" | "collected"
    finalizer,    \* wrappers with a finalizer registered (runtime.SetFinalizer)
    glShaders,    \* context: shader objects alive
    glPrograms,   \* context: program objects alive
    glFlagged,    \* context: programs flagged for deletion while current
    glCurrent,    \* context: GL_CURRENT_PROGRAM
    pending,      \* the work item of the app's mainthread.Call, if any
    deferred,     \* jobs queued with mainthread.CallNonBlock, FIFO
    blocked,      \* threads waiting for the main thread
    submitted,    \* wrapper -> the deletion jobs submitted for it
    deleted,      \* wrapper -> the DeleteProgram calls executed for it
    scopes,       \* the app's open Begin scopes, innermost last
    outerPrev,    \* wrapper -> GL_CURRENT_PROGRAM seen before its outermost Begin
    lastBinder,   \* the last Begin/End executed; nested: every End so far
                  \* closed the innermost open scope; alone: every Begin/End
                  \* since that shader's outermost Begin was its own
    lastSet,      \* what the last SetUniformAttr did, until the next is called
    crashed,      \* an unrecovered panic ended the process
    glBuffers,    \* context: buffer objects alive
    buffer,       \* the growable buffer: handle, capacity, length, storage
    slices,       \* the vertex slices made over the buffer
    lastVertex    \* the last buffer or slice operation and its outcome

vars == <<calls, shaders, reach, finalizer, glShaders, glPrograms, glFlagged,
          glCurrent, pending, deferred, blocked, submitted, deleted, scopes,
          outerPrev, lastBinder, lastSet, crashed, glBuffers, buffer, slices,
          lastVertex>>

glVars == <<glShaders, glPrograms, glFlagged, glCurrent>>
gateVars == <<pending, deferred, blocked>>
binderVars == <<scopes, outerPrev, lastBinder>>
vertexVars == <<glBuffers, buffer, slices, lastVertex>>
shaderVars == <<calls, shaders, reach, finalizer, glShaders, glPrograms,
                glFlagged, glCurrent, pending, blocked, submitted, deleted,
                scopes, outerPrev, lastBinder, lastSet, crashed>>

\* ------------------------------------------------------- attribute formats

\* AttrType, as SetUniformAttr switches over it.
AttrTypes ==
    {"Int", "Intp", "Float", "Floatp", "Vec2", "Vec2p", "Vec3", "Vec3p",
     "Vec4", "Vec4p", "Mat2", "Mat2p", "Mat23", "Mat23p", "Mat24", "Mat24p",
     "Mat3", "Mat3p", "Mat32", "Mat32p", "Mat34", "Mat34p", "Mat4", "Mat4p",
     "Mat42", "Mat42p", "Mat43", "Mat43p"}

\* An AttrType value outside the declared constants (AttrType is an int).
InvalidAttrType == "AttrType(99)"

\* For each AttrType: the Go type SetUniformAttr asserts the value to have,
\* and the upload it issues.
UniformTable ==
    {<<"Int", "int32", "Uniform1iv">>,
     <<"Intp", "*int32", "Uniform1iv">>,
     <<"Float", "float32", "Uniform1fv">>,
     <<"Floatp", "*float32", "Uniform1fv">>,
     <<"Vec2", "mgl32.Vec2", "Uniform2fv">>,
     <<"Vec2p", "*mgl32.Vec2", "Uniform2fv">>,
     <<"Vec3", "mgl32.Vec3", "Uniform3fv">>,
     <<"Vec3p", "*mgl32.Vec3", "Uniform3fv">>,
     <<"Vec4", "mgl32.Vec4", "Uniform4fv">>,
     <<"Vec4p", "*mgl32.Vec4", "Uniform4fv">>,
     <<"Mat2", "mgl32.Mat2", "UniformMatrix2fv">>,
     <<"Mat2p", "*mgl32.Mat2", "UniformMatrix2fv">>,
     <<"Mat23", "mgl32.Mat2x3", "UniformMatrix2x3fv">>,
     <<"Mat23p", "*mgl32.Mat2x3", "UniformMatrix2x3fv">>,
     <<"Mat24", "mgl32.Mat2x4", "UniformMatrix2x4fv">>,
     <<"Mat24p", "*mgl32.Mat2x4", "UniformMatrix2x4fv">>,
     <<"Mat3", "mgl32.Mat3", "UniformMatrix3fv">>,
     <<"Mat3p", "*mgl32.Mat3", "UniformMatrix3fv">>,
     <<"Mat32", "mgl32.Mat3x2", "UniformMatrix3x2fv">>,
     <<"Mat32p", "*mgl32.Mat3x2", "UniformMatrix3x2fv">>,
     <<"Mat34", "mgl32.Mat3x4", "UniformMatrix3x4fv">>,
     <<"Mat34p", "*mgl32.Mat3x4", "UniformMatrix3x4fv">>,
     <<"Mat4", "mgl32.Mat4", "UniformMatrix4fv">>,
     <<"Mat4p", "*mgl32.Mat4", "UniformMatrix4fv">>,
     <<"Mat42", "mgl32.Mat4x2", "UniformMatrix4x2fv">>,
     <<"Mat42p", "*mgl32.Mat4x2", "UniformMatrix4x2fv">>,
     <<"Mat43", "mgl32.Mat4x3", "UniformMatrix4x3fv">>,
     <<"Mat43p", "*mgl32.Mat4x3", "UniformMatrix4x3fv">>}

GoType(type) == (CHOOSE row \in UniformTable : row[1] = type)[2]
UploadCall(type) == (CHOOSE row \in UniformTable : row[1] = type)[3]

\* The dynamic types of the values a caller passes: the types of the table,
\* and the types of untyped Go constants.  A pointer points at a value.
GoTypes == {row[2] : row \in UniformTable} \cup {"int", "float64"}

\* ------------------------------------------------------------ the context

\* The names the context may issue: any name not in use.
Unused == Ids \ (glShaders \cup glPrograms)

\* gl.UseProgram(obj): an error (state unchanged) unless obj is 0 or a
\* program object; a program flagged for deletion goes when it stops being
\* current.
UseProgram(obj) ==
    IF obj = 0 \/ obj \in glPrograms
    THEN /\ glCurrent' = obj
         /\ IF glCurrent \in glFlagged /\ obj # glCurrent
            THEN /\ glPrograms' = glPrograms \ {glCurrent}
                 /\ glFlagged' = glFlagged \ {glCurrent}
            ELSE UNCHANGED <<glPrograms, glFlagged>>
    ELSE UNCHANGED <<glCurrent, glPrograms, glFlagged>>

\* gl.DeleteProgram(obj): deletes the program, or flags it while it is
\* current; an error (state unchanged) for a name that is no program.
DeleteProgram(obj) ==
    /\ glPrograms' = IF obj \in glPrograms /\ obj # glCurrent
                     THEN glPrograms \ {obj} ELSE glPrograms
    /\ glFlagged' = IF obj \in glPrograms /\ obj = glCurrent
                    THEN glFlagged \cup {obj} ELSE glFlagged

\* The uniforms active in the program linked from the built-in sources, with
\* the locations the linker gave them.
ActiveUniforms ==
    <<"u_transform", "u_bounds", "u_colormask", "u_texbounds", "u_texture">>

\* gl.GetUniformLocation(program, name): -1 for a name that is not an active
\* uniform of the program.
GetUniformLocation(name) ==
    IF \E k \in 1..Len(ActiveUniforms) : ActiveUniforms[k] = name
    THEN (CHOOSE k \in 1..Len(ActiveUniforms) : ActiveUniforms[k] = name) - 1
    ELSE -1

\* ---------------------------------------------------------------- sources

computeVertexShader == "computeVertexShader"
computeFragmentShader == "computeFragmentShader"
computeShader == "computeShader"

\* The demo's sources, and sources with a syntax error injected.
vertexShader == "vertexShader"
fragmentShader == "fragmentShader"
BrokenSources == {"vertexShader+syntax error", "fragmentShader+syntax error"}

\* A source with a syntax error never compiles; any other may still be
\* rejected by the driver (version, extensions, limits).
WellFormed(src) == src \notin BrokenSources

\* What the driver does in one NewCompute call: the first stage it rejects
\* (if any) and whether it writes an info log for the rejection.
Stages == <<"vertex", "fragment", "compute", "link">>
DriverOutcomes ==
    {[reject |-> "none", log |-> TRUE]} \cup
    {[reject |-> Stages[k], log |-> l] : k \in 1..4, l \in BOOLEAN}


\* --------------------------------------------------------------- NewCompute

\* The source NewCompute passes to gl.ShaderSource for the vertex shader and
\* for the fragment shader, given the sources it was called with.
VertexStageSource(vsrc) == computeVertexShader
FragmentStageSource(fsrc) == computeFragmentShader

\* gl.GetShaderiv(COMPILE_STATUS) / gl.GetProgramiv(LINK_STATUS).
CompileStatus(src, drv, stage) == WellFormed(src) /\ drv.reject # stage
LinkStatus(drv) == drv.reject # "link"

\* The uniforms loop: one location per entry of the uniform format.
UniformLocations(uniformFmt) ==
    [i \in 1..Len(uniformFmt) |-> GetUniformLocation(uniformFmt[i].Name)]

\* A failed stage: the error NewCompute returns, or the panic of
\* &infoLog[0] when the driver wrote no info log (logLen = 0).
StageError(src, drv, stage) ==
    IF WellFormed(src) /\ ~drv.log THEN "panic" ELSE stage

\* NewCompute with the program created, and the finalizer set, before the
\* shaders are compiled.
NewComputeProgramFirst(uniformFmt, vsrc, fsrc, drv, ids) ==
    LET Early(e, left) ==
            [err |-> e, shader |-> FALSE, program |-> ids[4],
             shaders |-> left, uniformLoc |-> <<>>, finalizer |-> TRUE]
    IN  IF ~CompileStatus(VertexStageSource(vsrc), drv, "vertex")
        THEN Early(StageError(VertexStageSource(vsrc), drv, "vertex"),
                   {ids[1]})
        ELSE IF ~CompileStatus(FragmentStageSource(fsrc), drv, "fragment")
        THEN Early(StageError(FragmentStageSource(fsrc), drv, "fragment"),
                   {ids[2]})
        ELSE IF ~CompileStatus(computeShader, drv, "compute")
        THEN Early(StageError(computeShader, drv, "compute"), {ids[3]})
        ELSE IF ~LinkStatus(drv)
        THEN Early(IF drv.log THEN "link" ELSE "panic", {})
        ELSE [err |-> "none", shader |-> TRUE, program |-> ids[4],
              shaders |-> {}, uniformLoc |-> UniformLocations(uniformFmt),
              finalizer |-> TRUE]

\* NewCompute, as a function of its arguments, of what the driver does and of
\* the names <<vshader, fshader, cshader, program>> the context issues:
\*   err        "none", the stage that failed, or "panic"
\*   shader     whether a non-nil *Compute is returned
\*   program    the name gl.CreateProgram returned, 0 if it was not called
\*   shaders    the shader objects still alive at the return (the deferred
\*              gl.DeleteShader calls have run)
\*   uniformLoc the locations recorded
\*   finalizer  whether runtime.SetFinalizer was called
NewCompute(uniformFmt, vsrc, fsrc, drv, ids) ==
    LET vshader == ids[1]
        fshader == ids[2]
        cshader == ids[3]
        program == ids[4]
        Failed(e, left, prog) ==
            [err |-> e, shader |-> FALSE, program |-> prog, shaders |-> left,
             uniformLoc |-> <<>>, finalizer |-> FALSE]
    IN  IF ~CompileStatus(VertexStageSource(vsrc), drv, "vertex")
        THEN Failed(StageError(VertexStageSource(vsrc), drv, "vertex"),
                    {vshader}, 0)
        ELSE IF ~CompileStatus(FragmentStageSource(fsrc), drv, "fragment")
        THEN Failed(StageError(FragmentStageSource(fsrc), drv, "fragment"),
                    {fshader}, 0)
        ELSE IF ~CompileStatus(computeShader, drv, "compute")
        THEN Failed(StageError(computeShader, drv, "compute"), {cshader}, 0)
        ELSE IF ~LinkStatus(drv)
        THEN Failed(IF drv.log THEN "link" ELSE "panic", {}, program)
        ELSE [err |-> "none", shader |-> TRUE, program |-> program,
              shaders |-> {}, uniformLoc |-> UniformLocations(uniformFmt),
              finalizer |-> TRUE]

\* ------------------------------------------------------------ dispatch gate

NoJob ==
    [op |-> "none", w |-> 0, fmt |-> <<>>, vs |-> "", fs |-> "",
     uniform |-> 0, value |-> ""]

NoShader == [obj |-> 0, uniformFmt |-> <<>>, uniformLoc |-> <<>>,
             depth |-> 0, prev |-> 0]

NoSet == [s |-> 0, uniform |-> 0, value |-> "", result |-> "none",
          upload |-> "none"]

AppIdle == ~crashed /\ pending = NoJob /\ "app" \notin blocked

\* mainthread.Call(f) from the app: f is queued and the caller waits.
Call(job) ==
    /\ AppIdle
    /\ pending' = job
    /\ blocked' = blocked \cup {"app"}
    /\ UNCHANGED deferred

\* The main thread has run the app's work item: the caller resumes.
Return ==
    /\ pending' = NoJob
    /\ blocked' = blocked \ {"app"}
    /\ UNCHANGED deferred

\* The names the context issues during one NewCompute call.
FreshNames ==
    {ids \in [1..4 -> Unused] : \A i, j \in 1..4 : i # j => ids[i] # ids[j]}

\* mainthread.Call(func() { shader, err = NewCompute(...) }) by the app.
CallNewCompute(uniformFmt, vsrc, fsrc) ==
    /\ Len(calls) < MaxCalls
    /\ Call([NoJob EXCEPT !.op = "NewCompute", !.fmt = uniformFmt,
                          !.vs = vsrc, !.fs = fsrc])
    /\ UNCHANGED <<calls, shaders, reach, finalizer, glVars, submitted,
                   deleted, binderVars, lastSet, crashed>>
    /\ UNCHANGED vertexVars

\* The same, for a context that issues the lowest unused names in order.
LowestNames ==
    {ids \in FreshNames :
        /\ \A i \in 1..3 : ids[i] < ids[i + 1]
        /\ \A u \in Unused : u >= ids[4] \/ \E i \in 1..4 : ids[i] = u}

\* The main thread runs NewCompute; names are the names the context may issue.
RunNewComputeWith(names) ==
    /\ ~crashed
    /\ pending.op = "NewCompute"
    /\ \E drv \in DriverOutcomes, ids \in names :
         LET r == NewCompute(pending.fmt, pending.vs, pending.fs, drv, ids)
             w == Len(calls) + 1
         IN  /\ calls' = Append(calls,
                    [vs |-> pending.vs, fs |-> pending.fs,
                     reject |-> drv.reject, err |-> r.err,
                     shader |-> r.shader, program |-> r.program])
             /\ IF r.err = "panic"
                THEN /\ crashed' = TRUE
                     /\ UNCHANGED <<shaders, reach, finalizer, glVars,
                                    gateVars>>
                ELSE /\ crashed' = FALSE
                     /\ shaders' = [shaders EXCEPT ![w] =
                            [obj |-> r.program, uniformFmt |-> pending.fmt,
                             uniformLoc |-> r.uniformLoc, depth |-> 0,
                             prev |-> 0]]
                     /\ reach' = [reach EXCEPT ![w] =
                            IF r.shader THEN "live" ELSE "unreachable"]
                     /\ finalizer' = IF r.finalizer
                                     THEN finalizer \cup {w} ELSE finalizer
                     /\ glShaders' = glShaders \cup r.shaders
                     /\ glPrograms' = IF r.program = 0 THEN glPrograms
                                      ELSE glPrograms \cup {r.program}
                     /\ UNCHANGED <<glFlagged, glCurrent>>
                     /\ Return
    /\ UNCHANGED <<submitted, deleted, binderVars, lastSet>>
    /\ UNCHANGED vertexVars

RunNewCompute == RunNewComputeWith(FreshNames)
RunNewComputeLowest == RunNewComputeWith(LowestNames)

\* ------------------------------------------------------------------ binder

\* NewCompute's binder: restoreLoc is gl.CURRENT_PROGRAM, bindFunc is
\* gl.UseProgram.
restoreLoc == glCurrent
bindFunc(obj) == UseProgram(obj)

\* binder.bind(): the outermost bind remembers what was current; every bind
\* makes the binder's object current and goes one level deeper.
bind(w) ==
    /\ shaders' = [shaders EXCEPT
           ![w].prev = IF shaders[w].depth = 0 THEN restoreLoc ELSE @,
           ![w].depth = @ + 1]
    /\ bindFunc(shaders[w].obj)

\* binder.restore(): one level up; leaving the outermost level makes current
\* what the outermost bind remembered.  A restore without a bind is refused.
restore(w) ==
    /\ shaders[w].depth > 0
    /\ shaders' = [shaders EXCEPT ![w].depth = @ - 1]
    /\ IF shaders[w].depth = 1
       THEN bindFunc(shaders[w].prev)
       ELSE UNCHANGED <<glCurrent, glPrograms, glFlagged>>

\* End as a copy of Begin: it binds where it should restore.
EndBinds(w) == bind(w)

\* End that leaves the scope and restores nothing.
EndKeepsCurrent(w) ==
    /\ shaders[w].depth > 0
    /\ shaders' = [shaders EXCEPT ![w].depth = @ - 1]
    /\ UNCHANGED <<glCurrent, glPrograms, glFlagged>>

\* Compute.Begin and Compute.End.
Begin(w) == bind(w)
End(w) == restore(w)

\* How many scopes of w the app has open.
Open(w) == Cardinality({k \in 1..Len(scopes) : scopes[k] = w})

\* mainthread.Call(shader.Begin) by the app, on a shader it holds.
CallBegin(w) ==
    /\ reach[w] = "live"
    /\ Open(w) < MaxDepth
    /\ Call([NoJob EXCEPT !.op = "Begin", !.w = w])
    /\ UNCHANGED <<calls, shaders, reach, finalizer, glVars, submitted,
                   deleted, binderVars, lastSet, crashed>>
    /\ UNCHANGED vertexVars

\* mainthread.Call(shader.End) by the app: scopes are closed innermost first.
CallEnd ==
    /\ scopes # <<>>
    /\ Call([NoJob EXCEPT !.op = "End", !.w = scopes[Len(scopes)]])
    /\ UNCHANGED <<calls, shaders, reach, finalizer, glVars, submitted,
                   deleted, binderVars, lastSet, crashed>>
    /\ UNCHANGED vertexVars

\* mainthread.Call(shader.End) by the app on any shader with an open scope,
\* innermost or not.
CallEndOf(w) ==
    /\ Open(w) >= 1
    /\ Call([NoJob EXCEPT !.op = "End", !.w = w])
    /\ UNCHANGED <<calls, shaders, reach, finalizer, glVars, submitted,
                   deleted, binderVars, lastSet, crashed>>
    /\ UNCHANGED vertexVars

\* The app's open scopes once the last one opened on w is closed.
Closed(w) ==
    LET k == CHOOSE i \in 1..Len(scopes) :
                 /\ scopes[i] = w
                 /\ \A j \in (i + 1)..Len(scopes) : scopes[j] # w
    IN  SubSeq(scopes, 1, k - 1) \o SubSeq(scopes, k + 1, Len(scopes))

\* The main thread runs shader.Begin().
RunBegin ==
    /\ ~crashed
    /\ pending.op = "Begin"
    /\ Begin(pending.w)
    /\ outerPrev' = IF Open(pending.w) = 0
                    THEN [outerPrev EXCEPT ![pending.w] = glCurrent]
                    ELSE outerPrev
    /\ scopes' = Append(scopes, pending.w)
    /\ lastBinder' = [op |-> "Begin", w |-> pending.w,
                      nested |-> lastBinder.nested,
                      alone |-> \/ Open(pending.w) = 0
                                \/ lastBinder.w = pending.w /\ lastBinder.alone]
    /\ Return
    /\ UNCHANGED <<calls, reach, finalizer, glShaders, submitted, deleted,
                   lastSet, crashed>>
    /\ UNCHANGED vertexVars

\* The main thread runs shader.End().
RunEnd ==
    /\ ~crashed
    /\ pending.op = "End"
    /\ End(pending.w)
    /\ scopes' = Closed(pending.w)
    /\ lastBinder' = [op |-> "End", w |-> pending.w,
                      nested |-> /\ lastBinder.nested
                                 /\ scopes[Len(scopes)] = pending.w,
                      alone |-> lastBinder.w = pending.w /\ lastBinder.alone]
    /\ Return
    /\ UNCHANGED <<calls, reach, finalizer, glShaders, submitted, deleted,
                   outerPrev, lastSet, crashed>>
    /\ UNCHANGED vertexVars

\* ---------------------------------------------------------- SetUniformAttr

\* SetUniformAttr with the location test dropped.
SetUniformAttrNoLocationTest(s, uniform, value) ==
    LET type == shaders[s].uniformFmt[uniform].Type
    IN  IF type \notin AttrTypes \/ value # GoType(type)
        THEN [result |-> "panic", upload |-> "none"]
        ELSE [result |-> "true", upload |-> UploadCall(type)]

\* Compute.SetUniformAttr(uniform, value) on shader s, for a value of dynamic
\* type value: what it returns ("panic" when it does not return) and the
\* upload it issues.  uniform counts from 1 here.
SetUniformAttr(s, uniform, value) ==
    LET type == shaders[s].uniformFmt[uniform].Type
    IN  IF shaders[s].uniformLoc[uniform] < 0
        THEN [result |-> "false", upload |-> "none"]
        ELSE IF type \notin AttrTypes \/ value # GoType(type)
        THEN [result |-> "panic", upload |-> "none"]
        ELSE [result |-> "true", upload |-> UploadCall(type)]

\* mainthread.Call(func() { shader.SetUniformAttr(uniform, value) }).
CallSetUniformAttr(w, uniform, value) ==
    /\ reach[w] = "live"
    /\ uniform \in 1..Len(shaders[w].uniformFmt)
    /\ Call([NoJob EXCEPT !.op = "SetUniformAttr", !.w = w,
                          !.uniform = uniform, !.value = value])
    /\ lastSet' = NoSet
    /\ UNCHANGED <<calls, shaders, reach, finalizer, glVars, submitted,
                   deleted, binderVars, crashed>>
    /\ UNCHANGED vertexVars

\* The main thread runs shader.SetUniformAttr; a panic ends the process.
RunSetUniformAttr ==
    /\ ~crashed
    /\ pending.op = "SetUniformAttr"
    /\ LET r == SetUniformAttr(pending.w, pending.uniform, pending.value)
       IN  /\ lastSet' = [s |-> pending.w, uniform |-> pending.uniform,
                          value |-> pending.value, result |-> r.result,
                          upload |-> r.upload]
           /\ IF r.result = "panic"
              THEN crashed' = TRUE /\ UNCHANGED gateVars
              ELSE crashed' = FALSE /\ Return
    /\ UNCHANGED <<calls, shaders, reach, finalizer, glVars, submitted,
                   deleted, binderVars>>
    /\ UNCHANGED vertexVars

\* ------------------------------------------------------------- reclamation

\* The app lets go of its last reference to a shader.  Every Begin it called
\* has met its End: an open scope holds the reference its End is called on.
Drop(w) ==
    /\ AppIdle
    /\ reach[w] = "live"
    /\ Open(w) = 0
    /\ reach' = [reach EXCEPT ![w] = "unreachable"]
    /\ UNCHANGED <<calls, shaders, finalizer, glVars, gateVars, submitted,
                   deleted, binderVars, lastSet, crashed>>
    /\ UNCHANGED vertexVars

\* mainthread.CallNonBlock(f): f is queued and the caller goes on.
CallNonBlock(job, thread) ==
    /\ deferred' = Append(deferred, job)
    /\ UNCHANGED blocked

\* delete with mainthread.Call in place of CallNonBlock: the finalizer
\* goroutine waits until the main thread has run the job.
deleteBlocking(s, thread) ==
    /\ deferred' = Append(deferred,
           [op |-> "DeleteProgram", s |-> s, wait |-> TRUE])
    /\ blocked' = blocked \cup {thread}
    /\ submitted' = [submitted EXCEPT ![s] =
           Append(@, [by |-> thread, how |-> "Call"])]
    /\ UNCHANGED <<glPrograms, glFlagged, deleted>>

\* delete that queues the job twice.
deleteTwice(s, thread) ==
    /\ deferred' = deferred \o
           <<[op |-> "DeleteProgram", s |-> s, wait |-> FALSE],
             [op |-> "DeleteProgram", s |-> s, wait |-> FALSE]>>
    /\ submitted' = [submitted EXCEPT ![s] =
           @ \o <<[by |-> thread, how |-> "CallNonBlock"],
                  [by |-> thread, how |-> "CallNonBlock"]>>]
    /\ UNCHANGED <<blocked, glPrograms, glFlagged, deleted>>

\* delete that queues nothing.
deleteForgets(s, thread) ==
    UNCHANGED <<deferred, blocked, submitted, glPrograms, glFlagged, deleted>>

\* Compute.delete, the finalizer, on the thread that runs it: it queues the
\* gl.DeleteProgram call for the main thread.
delete(s, thread) ==
    /\ CallNonBlock([op |-> "DeleteProgram", s |-> s, wait |-> FALSE], thread)
    /\ submitted' = [submitted EXCEPT ![s] =
           Append(@, [by |-> thread, how |-> "CallNonBlock"])]
    /\ UNCHANGED <<glPrograms, glFlagged, deleted>>

\* The runtime finds the wrapper unreachable and runs its finalizer, once, on
\* the finalizer goroutine.
Finalize(w) ==
    /\ ~crashed
    /\ reach[w] = "unreachable"
    /\ w \in finalizer
    /\ "gc" \notin blocked
    /\ finalizer' = finalizer \ {w}
    /\ reach' = [reach EXCEPT ![w] = "collected"]
    /\ delete(w, "gc")
    /\ UNCHANGED <<calls, shaders, glShaders, glCurrent, pending, binderVars,
                   lastSet, crashed>>
    /\ UNCHANGED vertexVars

\* The main thread runs the oldest job queued with CallNonBlock: the closure
\* of Compute.delete calls gl.DeleteProgram(s.program.obj).
RunDeferred ==
    /\ ~crashed
    /\ deferred # <<>>
    /\ Head(deferred).op = "DeleteProgram"
    /\ LET job == Head(deferred)
       IN  /\ DeleteProgram(shaders[job.s].obj)
           /\ deleted' = [deleted EXCEPT ![job.s] =
                  Append(@, [by |-> "main",
                             how |-> IF job.wait THEN "Call"
                                     ELSE "CallNonBlock"])]
           /\ blocked' = IF job.wait THEN blocked \ {"gc"} ELSE blocked
    /\ deferred' = Tail(deferred)
    /\ UNCHANGED <<calls, shaders, reach, finalizer, glShaders, glCurrent,
                   pending, submitted, binderVars, lastSet, crashed>>
    /\ UNCHANGED vertexVars

\* ------------------------------------------- growable buffer, vertex slice

MaxCap == 2
MaxValue == 2

\* The demo's vertex format: position and texture, a Vec2 each.
vertexFormat ==
    <<[Name |-> "position", Type |-> "Vec2"],
      [Name |-> "texture", Type |-> "Vec2"]>>

\* The number of float32 in an attribute of each type that occurs in a
\* vertex format, and in one vertex of a format.
Floats(type) ==
    CASE type = "Float" -> 1
      [] type = "Vec2" -> 2
      [] type = "Vec3" -> 3
      [] type = "Vec4" -> 4

RECURSIVE Stride(_)
Stride(format) ==
    IF format = <<>> THEN 0
    ELSE Floats(Head(format).Type) + Stride(Tail(format))

NoBuffer == [id |-> 0, capacity |-> 0, length |-> 0, store |-> <<>>]
NoVertexOp == [op |-> "none", slice |-> 0, arg |-> 0, result |-> "none"]

\* Storage the context has just allocated: 0 stands for a float32 nobody
\* has written.
Fresh(n) == [i \in 1..n |-> 0]

\* The float32 values of count vertices, the first with number v: the floats
\* of one vertex differ from each other and from every other vertex's.
VertexFloats(v, count) ==
    [i \in 1..(count * Stride(vertexFormat)) |->
        (1 + ((v - 1 + (i - 1) \div Stride(vertexFormat)) % MaxValue))
            * Stride(vertexFormat)
        + ((i - 1) % Stride(vertexFormat))]

\* The record of the operation that has just run: the slice it addressed
\* (if any), its argument (the capacity or length asked for, or the end
\* offset + count of the range addressed) and its outcome.
Did(op, slice, arg, result) ==
    [op |-> op, slice |-> slice, arg |-> arg, result |-> result]

\* The name gl.GenBuffers returns: the lowest one not in use.
GenBuffer == CHOOSE id \in Ids \ glBuffers : \A u \in Ids \ glBuffers : id <= u

\* Growable buffer write(offset, data): the range must lie within the
\* capacity; data goes to the store at offset vertices.
InCapacity(offset, n) ==
    offset >= 0 /\ offset * Stride(vertexFormat) + n <= Len(buffer.store)

write(offset, data) ==
    [buffer EXCEPT !.store =
        [i \in 1..Len(buffer.store) |->
            IF /\ i > offset * Stride(vertexFormat)
               /\ i <= offset * Stride(vertexFormat) + Len(data)
            THEN data[i - offset * Stride(vertexFormat)]
            ELSE buffer.store[i]]]

\* Growable buffer read(offset, count).
read(offset, count) ==
    SubSeq(buffer.store, offset * Stride(vertexFormat) + 1,
           (offset + count) * Stride(vertexFormat))

\* reserve that allocates the new store and copies nothing into it.
reservedWithoutCopy(newCapacity, id) ==
    IF newCapacity > buffer.capacity
    THEN [buffer EXCEPT !.id = id, !.capacity = newCapacity,
                        !.store = Fresh(newCapacity * Stride(vertexFormat))]
    ELSE buffer

\* Growable buffer reserve(newCapacity), id being the name of the new store:
\* a larger capacity gets a new store holding the first length vertices; any
\* other changes nothing.
reserved(newCapacity, id) ==
    IF newCapacity > buffer.capacity
    THEN [buffer EXCEPT
            !.id = id,
            !.capacity = newCapacity,
            !.store = SubSeq(buffer.store, 1,
                             buffer.length * Stride(vertexFormat))
                      \o Fresh((newCapacity - buffer.length)
                               * Stride(vertexFormat))]
    ELSE buffer

\* MakeVertexSlice(shader, len, cap): a buffer of capacity cap and length
\* len, and the slice of its first len vertices.
MakeVertexSlice(len, cap) ==
    /\ buffer = NoBuffer
    /\ 0 <= len /\ len <= cap
    /\ glBuffers' = glBuffers \cup {GenBuffer}
    /\ buffer' = [id |-> GenBuffer, capacity |-> cap, length |-> len,
                  store |-> Fresh(cap * Stride(vertexFormat))]
    /\ slices' = <<[start |-> 0, length |-> len]>>
    /\ lastVertex' = Did("MakeVertexSlice", 1, cap, "ok")
    /\ UNCHANGED <<shaderVars, deferred>>

\* reserve(newCapacity) on the buffer: the old store's deletion is scheduled
\* like that of any handle.  The record tells whether a new store was made.
Reserve(newCapacity) ==
    /\ buffer # NoBuffer
    /\ buffer' = reserved(newCapacity, GenBuffer)
    /\ glBuffers' = IF newCapacity > buffer.capacity
                    THEN glBuffers \cup {GenBuffer} ELSE glBuffers
    /\ deferred' = IF newCapacity > buffer.capacity
                   THEN Append(deferred, [op |-> "DeleteBuffer",
                                          s |-> buffer.id, wait |-> FALSE])
                   ELSE deferred
    /\ lastVertex' = Did("reserve", 0, newCapacity,
                         IF newCapacity > buffer.capacity THEN "grown"
                         ELSE "kept")
    /\ UNCHANGED <<shaderVars, slices>>

\* setLength(n): refused beyond the capacity.
SetLength(n) ==
    /\ buffer # NoBuffer
    /\ IF 0 <= n /\ n <= buffer.capacity
       THEN /\ buffer' = [buffer EXCEPT !.length = n]
            /\ lastVertex' = Did("setLength", 0, n, "ok")
       ELSE /\ buffer' = buffer
            /\ lastVertex' = Did("setLength", 0, n, "precondition")
    /\ UNCHANGED <<shaderVars, deferred, glBuffers, slices>>

\* slice(from, to) of slice s: a new slice over the same buffer.
Slice(s, from, to) ==
    /\ s \in 1..Len(slices)
    /\ IF 0 <= from /\ from <= to /\ to <= slices[s].length
       THEN /\ slices' = Append(slices, [start |-> slices[s].start + from,
                                         length |-> to - from])
            /\ lastVertex' = Did("slice", s, to, "ok")
       ELSE /\ slices' = slices
            /\ lastVertex' = Did("slice", s, to, "range")
    /\ UNCHANGED <<shaderVars, deferred, glBuffers, buffer>>

\* setVertexData that checks the range against the buffer's capacity.
setVertexDataInCapacity(s, data, offset) ==
    IF Len(data) % Stride(vertexFormat) # 0
    THEN [result |-> "length", buffer |-> buffer]
    ELSE IF ~InCapacity(slices[s].start + offset, Len(data))
    THEN [result |-> "range", buffer |-> buffer]
    ELSE [result |-> "ok", buffer |-> write(slices[s].start + offset, data)]

\* setVertexData(data, offset) of slice s: the outcome, and the buffer after.
\* data must hold whole vertices and must fit into the slice at offset.
setVertexData(s, data, offset) ==
    IF Len(data) % Stride(vertexFormat) # 0
    THEN [result |-> "length", buffer |-> buffer]
    ELSE IF \/ offset < 0
            \/ offset + Len(data) \div Stride(vertexFormat) > slices[s].length
    THEN [result |-> "range", buffer |-> buffer]
    ELSE [result |-> "ok", buffer |-> write(slices[s].start + offset, data)]

SetVertexData(s, data, offset) ==
    /\ s \in 1..Len(slices)
    /\ LET r == setVertexData(s, data, offset)
       IN  /\ buffer' = r.buffer
           /\ lastVertex' = Did("setVertexData", s,
                  offset + Len(data) \div Stride(vertexFormat), r.result)
    /\ UNCHANGED <<shaderVars, deferred, glBuffers, slices>>

\* The main thread runs the queued deletion of a buffer store.
RunDeferredBuffer ==
    /\ deferred # <<>>
    /\ Head(deferred).op = "DeleteBuffer"
    /\ glBuffers' = glBuffers \ {Head(deferred).s}
    /\ deferred' = Tail(deferred)
    /\ UNCHANGED <<shaderVars, buffer, slices, lastVertex>>

\* ------------------------------------------------------------ specification

Init ==
    /\ calls = <<>>
    /\ shaders = [w \in Wrappers |-> NoShader]
    /\ reach = [w \in Wrappers |-> "none"]
    /\ finalizer = {}
    /\ glShaders = {}
    /\ glPrograms = {}
    /\ glFlagged = {}
    /\ glCurrent = 0
    /\ pending = NoJob
    /\ deferred = <<>>
    /\ blocked = {}
    /\ submitted = [w \in Wrappers |-> <<>>]
    /\ deleted = [w \in Wrappers |-> <<>>]
    /\ scopes = <<>>
    /\ outerPrev = [w \in Wrappers |-> 0]
    /\ lastBinder = [op |-> "none", w |-> 0, nested |-> TRUE, alone |-> FALSE]
    /\ lastSet = NoSet
    /\ crashed = FALSE
    /\ glBuffers = {}
    /\ buffer = NoBuffer
    /\ slices = <<>>
    /\ lastVertex = NoVertexOp

\* The demo's call: NewShader(vertexFormat, AttrFormat{}, vertexShader,
\* fragmentShader).
CallNewComputeDemo == CallNewCompute(<<>>, vertexShader, fragmentShader)

Next ==
    \/ CallNewComputeDemo
    \/ RunNewCompute
    \/ \E w \in Wrappers : CallBegin(w)
    \/ CallEnd
    \/ RunBegin
    \/ RunEnd
    \/ \E w \in Wrappers : Drop(w)
    \/ \E w \in Wrappers : Finalize(w)
    \/ RunDeferred

Spec == Init /\ [][Next]_vars

\* The same with scopes on different shaders that may overlap: End is called
\* on any shader that has an open scope.
NextOverlap ==
    \/ CallNewComputeDemo
    \/ RunNewCompute
    \/ \E w \in Wrappers : CallBegin(w)
    \/ \E w \in Wrappers : CallEndOf(w)
    \/ RunBegin
    \/ RunEnd
    \/ \E w \in Wrappers : Drop(w)
    \/ \E w \in Wrappers : Finalize(w)
    \/ RunDeferred

SpecOverlap == Init /\ [][NextOverlap]_vars

\* NewCompute calls with any of the sources and the demo's uniform format.
VertexSources == {vertexShader, "vertexShader+syntax error"}
FragmentSources == {fragmentShader, "fragmentShader+syntax error"}

CallNewComputeSources ==
    \E vs \in VertexSources, fs \in FragmentSources :
        CallNewCompute(<<>>, vs, fs)

NextSources ==
    \/ CallNewComputeSources
    \/ RunNewCompute

SpecSources == Init /\ [][NextSources]_vars

\* One NewCompute call with any uniform format, and the SetUniformAttr calls
\* that follow it.
UniformNames == {"u_bounds", "u_missing"}
\* The formats of at most MaxUniforms attributes with different names.
UniformFormats ==
    UNION {UNION {{[i \in 1..n |-> [Name |-> names[i], Type |-> types[i]]] :
                      types \in [1..n -> AttrTypes \cup {InvalidAttrType}]} :
                  names \in {f \in [1..n -> UniformNames] :
                                \A i, j \in 1..n : i # j => f[i] # f[j]}} :
           n \in 0..MaxUniforms}

CallNewComputeUniforms ==
    /\ calls = <<>>
    /\ \E fmt \in UniformFormats :
           CallNewCompute(fmt, vertexShader, fragmentShader)

NextUniform ==
    \/ CallNewComputeUniforms
    \/ RunNewComputeLowest
    \/ \E w \in Wrappers, i \in 1..MaxUniforms, v \in GoTypes :
           CallSetUniformAttr(w, i, v)
    \/ RunSetUniformAttr

SpecUniform == Init /\ [][NextUniform]_vars

\* One growable buffer, the slices over it, and the data written to them.
MaxSlices == 2

NextVertex ==
    \/ \E cap \in 0..MaxCap, len \in 0..MaxCap : MakeVertexSlice(len, cap)
    \/ \E c \in 0..MaxCap : Reserve(c)
    \/ \E n \in 0..(MaxCap + 1) : SetLength(n)
    \/ \E s \in 1..MaxSlices, from \in 0..MaxCap, to \in 0..(MaxCap + 1) :
           Len(slices) < MaxSlices /\ Slice(s, from, to)
    \/ \E s \in 1..MaxSlices, v \in 1..MaxValue, count \in 0..(MaxCap + 1),
          offset \in 0..MaxCap :
           SetVertexData(s, VertexFloats(v, count), offset)
    \/ \E s \in 1..MaxSlices : SetVertexData(s, <<1>>, 0)
    \/ RunDeferredBuffer

SpecVertex == Init /\ [][NextVertex]_vars

\* The finalizer goroutine gets to run every finalizer that is due, and the
\* main thread keeps running the jobs queued for it.
FairSpec ==
    /\ Spec
    /\ \A w \in Wrappers : WF_vars(Finalize(w))
    /\ WF_vars(RunDeferred)

\* ------------------------------------------------------------------ claims

Returned(w) == w <= Len(calls) /\ calls[w].shader

\* C1: Begin/End calls on one shader that are properly nested leave current,
\* after the outermost End, the program that was current before the
\* outermost Begin; between the two, as long as every Begin/End since the
\* outermost Begin was the shader's own, the current program is the
\* shader's own.
C1_BeginEndRestores ==
    \A w \in Wrappers :
        /\ (lastBinder.w = w /\ lastBinder.alone /\ Open(w) >= 1)
               => glCurrent = shaders[w].obj
        /\ (lastBinder.op = "End" /\ lastBinder.w = w /\ Open(w) = 0)
               => glCurrent = outerPrev[w]

\* A shader's outermost End has just restored the program of an enclosing
\* shader, which is itself nested two deep.
C1_Witness ==
    \E w, v \in Wrappers :
        /\ w # v
        /\ lastBinder.op = "End" /\ lastBinder.w = w /\ lastBinder.alone
        /\ Open(w) = 0
        /\ shaders[v].depth = 2
        /\ outerPrev[w] = shaders[v].obj
        /\ glCurrent = shaders[v].obj
        /\ glCurrent # 0

\* C2: the finalizer never waits for the main thread and makes no context
\* call; every DeleteProgram call is made by the main thread, running a job
\* that was queued with CallNonBlock.
C2_HookDefersToMain ==
    /\ [](/\ "gc" \notin blocked
          /\ \A w \in Wrappers :
               /\ Len(deleted[w]) <= Len(submitted[w])
               /\ \A k \in 1..Len(submitted[w]) :
                      submitted[w][k].how = "CallNonBlock"
               /\ \A k \in 1..Len(deleted[w]) :
                      deleted[w][k] = [by |-> "main", how |-> "CallNonBlock"])
    /\ [][finalizer' # finalizer /\ finalizer' \subseteq finalizer
            => UNCHANGED <<glVars, deleted>>]_vars

\* The finalizer of one shader has run while the app waits in a
\* mainthread.Call, and the main thread has deleted the program.
C2_Witness ==
    \E w \in Wrappers :
        /\ reach[w] = "collected"
        /\ submitted[w] = <<[by |-> "gc", how |-> "CallNonBlock"]>>
        /\ deleted[w] = <<[by |-> "main", how |-> "CallNonBlock"]>>
        /\ "app" \in blocked

\* C3: for each shader a successful NewCompute returned, at most one deletion
\* job is ever submitted and at most one DeleteProgram call is ever made; the
\* programs of shaders not yet deleted are alive and pairwise distinct.
C3_AtMostOneDeletion ==
    \A w \in Wrappers :
        /\ Len(submitted[w]) <= 1
        /\ Len(deleted[w]) <= 1
        /\ Cardinality({k \in 1..Len(deferred) : deferred[k].s = w}) <= 1
        /\ (Returned(w) /\ deleted[w] = <<>>) =>
               /\ shaders[w].obj \in glPrograms
               /\ \A v \in Wrappers :
                      (v # w /\ Returned(v) /\ deleted[v] = <<>>)
                          => shaders[v].obj # shaders[w].obj

\* Two shaders became unreachable; the later one is already deleted while the
\* finalizer of the earlier one has not run yet.
C3_Witness ==
    \E w, v \in Wrappers :
        /\ w < v
        /\ reach[w] = "unreachable"
        /\ w \in finalizer
        /\ Len(deleted[v]) = 1
        /\ Len(submitted[v]) = 1

\* C4: once a shader that NewCompute returned is unreachable, its program is
\* eventually deleted by the main thread, through a job of the finalizer, with
\* no call by the app (unless a panic has ended the process).
C4_EventuallyDeleted ==
    \A w \in Wrappers :
        (Returned(w) /\ reach[w] = "unreachable")
            ~> (\/ crashed
                \/ /\ deleted[w] = <<[by |-> "main", how |-> "CallNonBlock"]>>
                   /\ shaders[w].obj \notin glPrograms)

\* An unreachable shader whose program the main thread has deleted.
C4_Witness ==
    \E w \in Wrappers :
        /\ Returned(w)
        /\ reach[w] = "collected"
        /\ Len(deleted[w]) = 1
        /\ shaders[w].obj \notin glPrograms
        /\ ~crashed

CompileErrors == {"vertex", "fragment", "compute"}

\* C6: a NewCompute call that returned a compile error returned no shader,
\* created no program and registered no finalizer, and no deletion job is
\* ever submitted or run for it.
C6_CompileErrorLeavesNoProgram ==
    \A c \in 1..Len(calls) :
        calls[c].err \in CompileErrors =>
            /\ ~calls[c].shader
            /\ calls[c].program = 0
            /\ c \notin finalizer
            /\ submitted[c] = <<>>
            /\ deleted[c] = <<>>
            /\ \A k \in 1..Len(deferred) : deferred[k].s # c

\* A call has returned a compile error and its wrapper is garbage, next to a
\* call that succeeded.
C6_Witness ==
    \E c, d \in 1..Len(calls) :
        /\ calls[c].err \in CompileErrors
        /\ reach[c] = "unreachable"
        /\ calls[d].err = "none"

\* C5: a NewCompute call that returns, given a vertex or fragment source that
\* does not compile, returns a compile error and no shader.
C5_InvalidSourceFails ==
    \A c \in 1..Len(calls) :
        (/\ calls[c].err # "panic"
         /\ ~WellFormed(calls[c].vs) \/ ~WellFormed(calls[c].fs))
            => (calls[c].err \in CompileErrors /\ ~calls[c].shader)

\* The slot a finished SetUniformAttr call addressed.
LastSlot == shaders[lastSet.s].uniformFmt[lastSet.uniform]
Present(name) == \E k \in 1..Len(ActiveUniforms) : ActiveUniforms[k] = name

\* C7: a SetUniformAttr call whose value is not of the type declared for the
\* slot does not return (it panics) and issues no upload, whether or not the
\* uniform has a location.
C7_MismatchRejected ==
    (/\ lastSet.result # "none"
     /\ LastSlot.Type \in AttrTypes
     /\ lastSet.value # GoType(LastSlot.Type))
        => (lastSet.result = "panic" /\ lastSet.upload = "none")

\* C8: a uniform name that is not in the linked program does not make
\* NewCompute fail and is recorded with a negative location; SetUniformAttr
\* on it returns false and issues no context call; SetUniformAttr on a
\* uniform that is in the program, with a value of the slot's type, returns
\* true.
C8_AbsentUniformNotFatal ==
    /\ \A c \in 1..Len(calls) :
           calls[c].reject = "none" => (calls[c].err = "none" /\ calls[c].shader)
    /\ \A w \in Wrappers :
           Returned(w) =>
               /\ Len(shaders[w].uniformLoc) = Len(shaders[w].uniformFmt)
               /\ \A i \in 1..Len(shaders[w].uniformFmt) :
                      shaders[w].uniformLoc[i] < 0
                          <=> ~Present(shaders[w].uniformFmt[i].Name)
    /\ lastSet.result # "none" =>
           /\ ~Present(LastSlot.Name) =>
                  (lastSet.result = "false" /\ lastSet.upload = "none")
           /\ (/\ Present(LastSlot.Name)
               /\ LastSlot.Type \in AttrTypes
               /\ lastSet.value = GoType(LastSlot.Type))
                  => (/\ lastSet.result = "true"
                      /\ lastSet.upload = UploadCall(LastSlot.Type))

\* NewCompute returned a shader whose second uniform is absent and whose first
\* is present; SetUniformAttr on the absent one has returned false.
C8_Witness ==
    /\ Returned(1)
    /\ Len(shaders[1].uniformFmt) = 2
    /\ shaders[1].uniformLoc[1] >= 0
    /\ shaders[1].uniformLoc[2] = -1
    /\ lastSet.s = 1
    /\ lastSet.uniform = 2
    /\ lastSet.result = "false"
    /\ lastSet.upload = "none"
    /\ ~crashed

\* C9: a SetVertexData of count vertices at vertex offset off on a slice of
\* length L succeeds when off + count <= L and is rejected with a range error
\* when off + count > L, whatever room the buffer's capacity has; a rejected
\* write leaves the buffer as it was.
C9_WriteWithinSlice ==
    /\ [](lastVertex.op = "setVertexData" /\ lastVertex.result # "length"
            => /\ lastVertex.result \in {"ok", "range"}
               /\ lastVertex.result = "ok"
                    <=> lastVertex.arg <= slices[lastVertex.slice].length)
    /\ [][lastVertex'.op = "setVertexData" /\ lastVertex'.result # "ok"
            => buffer' = buffer]_vars

\* A write ending one vertex past the end of a slice of length 1 or more has
\* been rejected with a range error although it fits the buffer's capacity,
\* and the slice's last vertex holds data written up to the boundary.
C9_Witness ==
    /\ lastVertex.op = "setVertexData"
    /\ lastVertex.result = "range"
    /\ LET sl == slices[lastVertex.slice]
       IN  /\ sl.length >= 1
           /\ lastVertex.arg = sl.length + 1
           /\ sl.start + lastVertex.arg <= buffer.capacity
           /\ buffer.store[(sl.start + sl.length) * Stride(vertexFormat)] # 0

\* C10: reserve(c) with c >= capacity leaves a capacity of at least c, the
\* length unchanged and each of the first length vertices as it was;
\* reserve(c) with c <= capacity changes nothing of the buffer.
C10_ReservePreserves ==
    [][lastVertex'.op = "reserve"
        => LET c == lastVertex'.arg
               n == buffer.length * Stride(vertexFormat)
           IN  /\ 0 <= buffer.length /\ buffer.length <= buffer.capacity
               /\ c >= buffer.capacity
                    => /\ buffer'.capacity >= c
                       /\ buffer'.length = buffer.length
                       /\ Len(buffer'.store)
                            = buffer'.capacity * Stride(vertexFormat)
                       /\ SubSeq(buffer'.store, 1, n)
                            = SubSeq(buffer.store, 1, n)
               /\ c <= buffer.capacity => buffer' = buffer]_vars

\* reserve has just made a larger store for a buffer whose length is 1 or
\* more and whose first vertex holds written data.
C10_Witness ==
    /\ lastVertex.op = "reserve"
    /\ lastVertex.result = "grown"
    /\ buffer.capacity = lastVertex.arg
    /\ buffer.length >= 1
    /\ buffer.store[1] # 0
    /\ deferred # <<>>

\* C11 as stated, for every order of Begin and End on several shaders: with
\* wrappers becoming unreachable and deletion jobs running between the work
\* items, the current program is never one whose DeleteProgram call has
\* executed: it is a live program, not flagged for deletion, of a wrapper
\* no DeleteProgram call has run for.
C11_CurrentNeverDeleted ==
    glCurrent # 0 =>
        /\ glCurrent \in glPrograms
        /\ glCurrent \notin glFlagged
        /\ \E w \in Wrappers :
               /\ Returned(w)
               /\ shaders[w].obj = glCurrent
               /\ deleted[w] = <<>>

\* C11 for properly nested scopes: as long as every End has closed the
\* innermost open scope, the current program is never one whose
\* DeleteProgram call has executed.
C11_NestedCurrentNeverDeleted ==
    (lastBinder.nested /\ glCurrent # 0) =>
        /\ glCurrent \in glPrograms
        /\ glCurrent \notin glFlagged
        /\ \E w \in Wrappers :
               /\ Returned(w)
               /\ shaders[w].obj = glCurrent
               /\ deleted[w] = <<>>

\* Inside the scope of one shader, the End of a nested scope on another has
\* restored the first one's program, and the other's wrapper has since been
\* collected and its DeleteProgram call has run.
C11_Witness ==
    \E w, v \in Wrappers :
        /\ w # v
        /\ lastBinder.nested
        /\ Open(w) >= 1
        /\ lastBinder.op = "End" /\ lastBinder.w = v
        /\ glCurrent = shaders[w].obj /\ glCurrent # 0
        /\ reach[v] = "collected"
        /\ Len(deleted[v]) = 1

\* C12: after any return of NewCompute, every object the context holds that
\* this layer created is the program of a returned wrapper whose finalizer
\* is still to run, or whose deletion job is queued, or whose DeleteProgram
\* call has run while the program was current; no shader object and no other
\* program is left.
C12_NoLeakedObjects ==
    ~crashed =>
        /\ glShaders = {}
        /\ \A id \in glPrograms :
               \E w \in Wrappers :
                   /\ Returned(w)
                   /\ shaders[w].obj = id
                   /\ \/ w \in finalizer
                      \/ \E k \in 1..Len(deferred) :
                             /\ deferred[k].op = "DeleteProgram"
                             /\ deferred[k].s = w
                      \/ id \in glFlagged

====
